---------------------------- MODULE Spec2Model ----------------------------
(***************************************************************************)
(* Model of the type checker of typed-lisp (src/main.cc): type terms, the  *)
(* substitution and unifier of type_system, the scope tree, and the        *)
(* type_visitor that walks the AST.                                        *)
(*                                                                         *)
(* Two specifications share the variables:                                 *)
(*   Spec       a single type_system receiving a sequence of unify calls   *)
(*   SpecCheck  a type_visitor: register_builtins, then node::accept on    *)
(*              a sequence of forms                                        *)
(*                                                                         *)
(* A C++ exception is modelled by its what() string; "" means that no      *)
(* exception is in flight.                                                 *)
(***************************************************************************)
EXTENDS Integers, Sequences, FiniteSets, TLC

(***************************************************************************)
(* Bounds of the model.                                                    *)
(***************************************************************************)
\* unify calls issued on the type_system of Spec
MaxCalls == 3
\* forms accepted by the visitor of SpecCheck
MaxForms == 2
\* depth of nested unify calls followed before the call is reported as
\* never returning (the recursion of type_system::unify has no bound)
MaxDepth == 12

(***************************************************************************)
(* Type terms: struct atomic_type, var_type, func_type.                    *)
(***************************************************************************)
atomic_type(n) == [k |-> "atomic", name |-> n]
var_type(i) == [k |-> "var", id |-> i]
func_type(arg, ret) == [k |-> "func", arg_type |-> arg, ret_type |-> ret]

\* a default-constructed type_ptr
nullptr == [k |-> "null"]

TYPE_INT == "int"
TYPE_BOOL == "bool"
TYPE_STRING == "string"

RECURSIVE to_string(_)
to_string(t) ==
  CASE t.k = "atomic" -> t.name
    [] t.k = "var" -> "t" \o ToString(t.id)
    [] t.k = "func" ->
         "(" \o to_string(t.arg_type) \o " -> " \o to_string(t.ret_type) \o ")"

\* the ids of the variables of t in order of appearance, duplicates kept
RECURSIVE free_vars(_)
free_vars(t) ==
  CASE t.k = "atomic" -> << >>
    [] t.k = "var" -> << t.id >>
    [] t.k = "func" -> free_vars(t.arg_type) \o free_vars(t.ret_type)

\* subst is a function from ids to terms.  A variable is replaced by its
\* entry, and the entry is returned as it is stored: it is not substituted
\* again.
RECURSIVE substitute(_, _)
substitute(t, subst) ==
  CASE t.k = "atomic" -> t
    [] t.k = "var" -> IF t.id \in DOMAIN subst THEN subst[t.id] ELSE t
    [] t.k = "func" ->
         func_type(substitute(t.arg_type, subst), substitute(t.ret_type, subst))

(***************************************************************************)
(* class type_system.  substitutions maps an id to the term it is bound    *)
(* to.  The map holds shared pointers, and unify compares two pointers     *)
(* (t1 != t2, line 384), so the identity of the stored objects is part of  *)
(* the state: ptr maps each bound id whose entry is a var_type to a tag,   *)
(* and two entries carry the same tag iff they hold the same object.  An   *)
(* entry that is not a var_type has tag 0: line 384 is reached only when   *)
(* t1 is a var_type, so the identity of other objects is never observed.   *)
(***************************************************************************)
EmptyMap == [i \in {} |-> 0]

new_type_system == [substitutions |-> EmptyMap, ptr |-> EmptyMap]

\* the object apply_substitution returns: term t, and tag p of the object
\* (0 for an object made by this call, which no other pointer refers to)
apply_object(ts, t) ==
  IF t.k = "var" /\ t.id \in DOMAIN ts.substitutions
    THEN [t |-> ts.substitutions[t.id], p |-> ts.ptr[t.id]]
    ELSE [t |-> substitute(t, ts.substitutions), p |-> 0]

apply_substitution(ts, t) == substitute(t, ts.substitutions)

get_final_type(ts, t) == apply_substitution(ts, t)

\* occurs_check that finds no variable in any term
occurs_check_skipped(var_id, t) == FALSE

occurs_check(var_id, t) ==
  LET fv == free_vars(t)
  IN \E i \in DOMAIN fv : fv[i] = var_id

\* t1 == t2 on the two shared pointers
same_object(o1, o2) == o1.p # 0 /\ o1.p = o2.p

\* a tag that no entry other than id carries
fresh_tag(ts, id) ==
  LET used == {ts.ptr[i] : i \in DOMAIN ts.ptr \ {id}}
  IN CHOOSE n \in 1..(Cardinality(used) + 1) :
       /\ n \notin used
       /\ \A m \in 1..(n - 1) : m \in used

\* substitutions[id] = o
store(ts, id, o) ==
  LET tag == IF o.t.k # "var" THEN 0
             ELSE IF o.p # 0 THEN o.p
             ELSE fresh_tag(ts, id)
      dom == DOMAIN ts.substitutions \cup {id}
  IN [substitutions |->
        [i \in dom |-> IF i = id THEN o.t ELSE ts.substitutions[i]],
      ptr |-> [i \in dom |-> IF i = id THEN tag ELSE ts.ptr[i]]]

RecursiveUnification == "recursive unification"
StackOverflow == "stack overflow"

type_mismatch(t1, t2) ==
  "type mismatch, expected " \o to_string(t1) \o " but found " \o to_string(t2)

\* unify(t1, t2) on type_system ts: the type_system it leaves and the
\* exception it throws.  Bindings made before a throw stay in the map.
RECURSIVE unify(_, _, _, _)
unify(ts, pt1, pt2, depth) ==
  IF depth = 0 THEN [ts |-> ts, exc |-> StackOverflow]
  ELSE
  LET o1 == apply_object(ts, pt1)
      o2 == apply_object(ts, pt2)
      t1 == o1.t
      t2 == o2.t
  IN IF t1.k = "var" THEN
       IF ~same_object(o1, o2) THEN
         IF occurs_check(t1.id, t2)
           THEN [ts |-> ts, exc |-> RecursiveUnification]
           ELSE [ts |-> store(ts, t1.id, o2), exc |-> ""]
       ELSE [ts |-> ts, exc |-> ""]
     ELSE IF t2.k = "var" THEN unify(ts, t2, t1, depth - 1)
     ELSE IF t1.k = "func" /\ t2.k = "func" THEN
       LET r == unify(ts, t1.arg_type, t2.arg_type, depth - 1)
       IN IF r.exc # "" THEN r
          ELSE unify(r.ts, t1.ret_type, t2.ret_type, depth - 1)
     ELSE IF t1.k = "atomic" /\ t2.k = "atomic" /\ t1.name = t2.name
       THEN [ts |-> ts, exc |-> ""]
     ELSE [ts |-> ts, exc |-> type_mismatch(t1, t2)]

get_type(name) == atomic_type(name)

make_function_type(arg, ret) == func_type(arg, ret)


(***************************************************************************)
(* State.                                                                  *)
(*   types, result, calls: the type_system of Spec, the exception of the   *)
(*     last unify call on it ("" when it returned), the calls made.        *)
(*   The other variables are the fields of the type_visitor of SpecCheck   *)
(*   and what it reaches: the scope tree, type_var::next_id, the           *)
(*   exception that escaped node::accept, and the forms accepted.          *)
(***************************************************************************)
VARIABLES types, result, calls,
          scopes, current_scope, current_type, errors, entered_fn_block,
          bindings, next_id, exc, registered, last, nforms, insts,
          issued, history

unifier_vars == << types, result, calls >>

visitor_vars == << scopes, current_scope, current_type, errors,
                   entered_fn_block, bindings, next_id, exc, registered,
                   last, nforms, insts, issued, history >>

vars == << types, result, calls, scopes, current_scope, current_type, errors,
           entered_fn_block, bindings, next_id, exc, registered, last, nforms,
           insts, issued, history >>

(***************************************************************************)
(* The terms handed to unify in Spec: three variables, two atomic types,   *)
(* and the arrows  v -> int  for each variable v,  t0 -> t0  and           *)
(* int -> bool.                                                            *)
(***************************************************************************)
VarIds == {0, 1, 2}

BaseTerms == {var_type(i) : i \in VarIds}
               \cup {atomic_type(TYPE_INT), atomic_type(TYPE_BOOL)}

ArrowTerms == {func_type(var_type(i), atomic_type(TYPE_INT)) : i \in VarIds}
                \cup {func_type(var_type(0), var_type(0)),
                      func_type(atomic_type(TYPE_INT), atomic_type(TYPE_BOOL))}

Terms == BaseTerms \cup ArrowTerms

NoResult == "no call yet"

\* one call types.unify(t1, t2); the caller catches what it throws
UnifyCall(t1, t2) ==
  /\ calls < MaxCalls
  /\ LET r == unify(types, t1, t2, MaxDepth)
     IN /\ types' = r.ts
        /\ result' = r.exc
  /\ calls' = calls + 1
  /\ UNCHANGED visitor_vars

(***************************************************************************)
(* AST: class atom, class list.                                            *)
(***************************************************************************)
atom(value) == [k |-> "atom", value |-> value]
list(children) == [k |-> "list", children |-> children]

is_atom(node) == node.k = "atom"
is_list(node) == node.k = "list"

TOKEN_PROGRAM == "program"
TOKEN_TRUE == "true"
TOKEN_FALSE == "false"
TOKEN_LET == "let"
TOKEN_SET == "set"
TOKEN_IF == "if"
TOKEN_DEF == "def"
TOKEN_COLON == ":"
TOKEN_ADD == "+"
TOKEN_SUB == "-"
TOKEN_MUL == "*"
TOKEN_DIV == "/"
TOKEN_EQ == "="
TOKEN_NEQ == "!="
TOKEN_GT == ">"
TOKEN_LT == "<"
TOKEN_LEQ == "<="
TOKEN_GEQ == ">="

(***************************************************************************)
(* What the character tests of the source answer on the atoms of the       *)
(* model: std::stoi(value) returns, value is enclosed in double quotes,    *)
(* value.front() is the tick.                                              *)
(***************************************************************************)
IntLiterals == {"0", "1", "5", "7", "10"}
StringLiterals == {"\"s\""}
TickAtoms == {"'a", "'b"}

stoi_returns(value) == value \in IntLiterals
is_quoted(value) == value \in StringLiterals
is_polymorphic(value) == value \in TickAtoms

(***************************************************************************)
(* Maps (std::unordered_map) as functions.                                 *)
(***************************************************************************)
map_put(f, key, v) ==
  [x \in DOMAIN f \cup {key} |-> IF x = key THEN v ELSE f[x]]

(***************************************************************************)
(* The state the visitor works on, as one record st:                       *)
(*   scopes            every scope made so far; scopes[1] is global_scope  *)
(*                     and parent = 0 is a null parent.  Each scope has    *)
(*                     its own members env, types and polymorphic_vars     *)
(*   next_id           the static type_var::next_id                        *)
(*   exc               the exception propagating out of the current call   *)
(*   insts             every instantiation made by lookup_type, in order   *)
(*   issued            every id that fresh_var returned, in order          *)
(***************************************************************************)
new_scope(p) ==
  [parent |-> p, env |-> EmptyMap, types |-> new_type_system,
   polymorphic_vars |-> EmptyMap]

\* fresh_var with a type_var that does not advance next_id
fresh_var_reusing(st) ==
  [st |-> [st EXCEPT !.issued = Append(st.issued, st.next_id)],
   t |-> var_type(st.next_id)]

\* type_system::fresh_var: var_type(type_var().id), where type_var() takes
\* id from the static counter next_id and advances it
fresh_var(st) ==
  [st |-> [st EXCEPT !.next_id = st.next_id + 1,
                     !.issued = Append(st.issued, st.next_id)],
   t |-> var_type(st.next_id)]

\* scope::create_child
create_child(st, sc) ==
  [st |-> [st EXCEPT !.scopes = Append(st.scopes, new_scope(sc))],
   child |-> Len(st.scopes) + 1]

\* scope::define_type
define_type(st, sc, name, t, poly_vars) ==
  LET s == st.scopes[sc]
      s1 == [s EXCEPT !.env = map_put(s.env, name, t)]
      s2 == IF poly_vars # << >>
              THEN [s1 EXCEPT !.polymorphic_vars =
                                 map_put(s.polymorphic_vars, name, poly_vars)]
              ELSE s1
  IN [st EXCEPT !.scopes[sc] = s2]

\* the loop of instantiate_polymorphic_type: subst[var] = types.fresh_var()
RECURSIVE instantiate_vars(_, _, _, _)
instantiate_vars(st, ids, i, subst) ==
  IF i > Len(ids) THEN [st |-> st, subst |-> subst]
  ELSE LET f == fresh_var(st)
       IN instantiate_vars(f.st, ids, i + 1, map_put(subst, ids[i], f.t))

\* instantiate_polymorphic_type with the substitution step left out: the
\* stored type is returned with its generalized ids
instantiate_without_fresh(st, t, ids) == [st |-> st, t |-> t]

\* scope::instantiate_polymorphic_type
instantiate_polymorphic_type(st, t, ids) ==
  LET r == instantiate_vars(st, ids, 1, EmptyMap)
  IN [st |-> r.st, t |-> substitute(t, r.subst)]

unbound_variable(name) == "unbound variable: " \o name

\* lookup_type with the instantiation left out: the stored type is returned
\* with its generalized ids
RECURSIVE lookup_type_uninstantiated(_, _, _)
lookup_type_uninstantiated(st, sc, name) ==
  LET s == st.scopes[sc]
  IN IF name \in DOMAIN s.env THEN [st |-> st, t |-> s.env[name], exc |-> ""]
     ELSE IF s.parent # 0 THEN lookup_type_uninstantiated(st, s.parent, name)
     ELSE [st |-> st, t |-> nullptr, exc |-> unbound_variable(name)]

\* lookup_type that reads the outermost scope only and never the scope it is
\* called on
lookup_type_outermost(st, sc, name) ==
  LET s == st.scopes[1]
  IN IF name \in DOMAIN s.env THEN
       IF name \in DOMAIN s.polymorphic_vars THEN
         LET r == instantiate_polymorphic_type(st, s.env[name],
                                               s.polymorphic_vars[name])
             done == [name |-> name, ids |-> s.polymorphic_vars[name],
                      t |-> r.t]
         IN [st |-> [r.st EXCEPT !.insts = Append(r.st.insts, done)],
             t |-> r.t, exc |-> ""]
       ELSE [st |-> st, t |-> s.env[name], exc |-> ""]
     ELSE [st |-> st, t |-> nullptr, exc |-> unbound_variable(name)]

\* scope::lookup_type on scope sc: the state, the type returned and the
\* exception thrown
RECURSIVE lookup_type(_, _, _)
lookup_type(st, sc, name) ==
  LET s == st.scopes[sc]
  IN IF name \in DOMAIN s.env THEN
       IF name \in DOMAIN s.polymorphic_vars THEN
         LET r == instantiate_polymorphic_type(st, s.env[name],
                                               s.polymorphic_vars[name])
             done == [name |-> name, ids |-> s.polymorphic_vars[name],
                      t |-> r.t]
         IN [st |-> [r.st EXCEPT !.insts = Append(r.st.insts, done)],
             t |-> r.t, exc |-> ""]
       ELSE [st |-> st, t |-> s.env[name], exc |-> ""]
     ELSE IF s.parent # 0 THEN lookup_type(st, s.parent, name)
     ELSE [st |-> st, t |-> nullptr, exc |-> unbound_variable(name)]

\* scope_unify with the call of unify left out: nothing is bound and nothing
\* is thrown
scope_unify_skipped(st, sc, t1, t2) == [st |-> st, exc |-> ""]

\* unify on the type_system of scope sc; what it throws is returned in exc
scope_unify(st, sc, t1, t2) ==
  LET r == unify(st.scopes[sc].types, t1, t2, MaxDepth)
  IN [st |-> [st EXCEPT !.scopes[sc].types = r.ts], exc |-> r.exc]

(***************************************************************************)
(* Diagnostics.  lisp_parser never advances current_line and               *)
(* current_column, so every location is line 1, column 1; the context is   *)
(* line 1 of the input text, which the model does not carry.               *)
(* format_error is modelled without its colour codes and line breaks.      *)
(***************************************************************************)
SourceLine == "<line 1>"

format_error(message, line, column, context, type_repr, hint) ==
  "error: " \o message \o " @ line " \o ToString(line) \o ", col "
    \o ToString(column) \o " | " \o context \o " | ^ hint: " \o hint

push_error(st, text) == [st EXCEPT !.errors = Append(st.errors, text)]

with_error(st, message, type_repr, hint) ==
  push_error(st, format_error(message, 1, 1, SourceLine, type_repr, hint))

\* type_visitor::infer_literal
infer_literal(st, value) ==
  IF value = TOKEN_PROGRAM \/ value = TOKEN_FALSE
    THEN [st |-> st, t |-> get_type(TYPE_BOOL), exc |-> ""]
  ELSE IF stoi_returns(value)
    THEN [st |-> st, t |-> get_type(TYPE_INT), exc |-> ""]
  ELSE IF is_quoted(value)
    THEN [st |-> st, t |-> get_type(TYPE_STRING), exc |-> ""]
  ELSE IF is_polymorphic(value)
    THEN LET f == fresh_var(st) IN [st |-> f.st, t |-> f.t, exc |-> ""]
  ELSE lookup_type(st, st.current_scope, value)

\* type_visitor::visit(atom*): nothing catches what infer_literal throws
visit_atom(st, node) ==
  LET r == infer_literal(st, node.value)
  IN IF r.exc # "" THEN [r.st EXCEPT !.exc = r.exc]
     ELSE [r.st EXCEPT !.current_type = r.t]

\* the arrow chain ts[1] -> (ts[2] -> ... (ts[n] -> ret)), built from the end
\* of ts as the reverse-iterator loops of visit_def and visit_call build it
RECURSIVE curried(_, _)
curried(ts, ret) ==
  IF ts = << >> THEN ret
  ELSE make_function_type(Head(ts), curried(Tail(ts), ret))

\* a call that never returns ends the process; nothing catches it
escapes(e) == e = StackOverflow

(***************************************************************************)
(* class type_visitor.  Every operator takes the state st and returns the  *)
(* state the handler leaves; st.exc # "" there means that the handler was  *)
(* left by an exception, which every caller passes on.                     *)
(***************************************************************************)
\* the statements of a handler run in sequence: bind names the value v that
\* one statement computes in the statements K that follow it
bind(v, K(_)) == K(v)

RECURSIVE accept(_, _), accept_children(_, _, _), visit_list(_, _),
          visit_let(_, _), visit_def(_, _), def_params(_, _, _, _, _),
          visit_set(_, _), visit_if(_, _), visit_call(_, _),
          call_args(_, _, _, _)

\* atom::accept and list::accept: the list is visited, then each child is
\* accepted in turn
accept(st, node) ==
  IF is_atom(node) THEN visit_atom(st, node)
  ELSE bind(visit_list(st, node), LAMBDA s1 :
       IF s1.exc # "" THEN s1
       ELSE accept_children(s1, node.children, 1))

accept_children(st, children, i) ==
  IF i > Len(children) THEN st
  ELSE bind(accept(st, children[i]), LAMBDA s1 :
       IF s1.exc # "" THEN s1
       ELSE accept_children(s1, children, i + 1))

\* type_visitor::visit(list*)
visit_list(st, node) ==
  IF node.children = << >> THEN st
  ELSE LET fst == node.children[1]
       IN IF ~is_atom(fst)
            THEN push_error(st, "expected atom as first element of list")
          ELSE IF fst.value = TOKEN_LET THEN visit_let(st, node)
          ELSE IF fst.value = TOKEN_DEF THEN visit_def(st, node)
          ELSE IF fst.value = TOKEN_SET THEN visit_set(st, node)
          ELSE IF fst.value = TOKEN_IF THEN visit_if(st, node)
          ELSE visit_call(st, node)

\* type_visitor::visit_let
visit_let(st, node) ==
  LET ch == node.children
      malformed == with_error(st, "malformed let expression", "",
                              "expected (let name : type value)")
  IN IF Len(ch) # 5 THEN malformed
     ELSE IF \/ ~is_atom(ch[2]) \/ ~is_atom(ch[3]) \/ ~is_atom(ch[4])
             \/ ch[3].value # TOKEN_COLON
       THEN malformed
     ELSE
       LET name == ch[2].value
           tick == is_polymorphic(ch[4].value)
           f == fresh_var(st)
           s1 == IF tick THEN f.st ELSE st
           poly_vars == IF tick THEN << f.t.id >> ELSE << >>
           declared_type == IF tick THEN f.t ELSE get_type(ch[4].value)
       IN bind(accept(s1, ch[5]), LAMBDA s2 :
          IF s2.exc # "" THEN s2 ELSE
          bind(scope_unify(s2, s2.current_scope, declared_type,
                           s2.current_type), LAMBDA u :
          IF escapes(u.exc) THEN [u.st EXCEPT !.exc = u.exc]
          ELSE IF u.exc # ""
            THEN with_error(u.st, "type error in let binding",
                            to_string(declared_type), u.exc)
          ELSE
          bind(define_type(u.st, u.st.current_scope, name, declared_type,
                           poly_vars), LAMBDA s3 :
          [s3 EXCEPT !.bindings =
             map_put(s3.bindings, name,
                     [name |-> name, type |-> declared_type,
                      polymorphic_vars |-> poly_vars])])))

\* the parameter loop of visit_def; i counts from 0 as in the source
def_params(st, ch, i, param_types, poly_vars) ==
  IF i >= Len(ch)
    THEN [st |-> st, param_types |-> param_types, poly_vars |-> poly_vars]
  ELSE IF i + 2 >= Len(ch)
    THEN def_params(push_error(st, "malformed parameter list"), ch, i + 3,
                    param_types, poly_vars)
  ELSE IF \/ ~is_atom(ch[i + 1]) \/ ~is_atom(ch[i + 2]) \/ ~is_atom(ch[i + 3])
          \/ ch[i + 2].value # TOKEN_COLON
    THEN def_params(push_error(st, "malformed parameter"), ch, i + 3,
                    param_types, poly_vars)
  ELSE
    LET tick == is_polymorphic(ch[i + 3].value)
        f == fresh_var(st)
        s1 == IF tick THEN f.st ELSE st
        param_t == IF tick THEN f.t ELSE get_type(ch[i + 3].value)
        s2 == define_type(s1, s1.current_scope, ch[i + 1].value, param_t,
                          << >>)
    IN def_params(s2, ch, i + 3, Append(param_types, param_t),
                  IF tick THEN Append(poly_vars, f.t.id) ELSE poly_vars)

\* visit_def without current_scope = prev_scope: the child scope stays current
\* after the def
visit_def_keeping_child_scope(st, node) ==
  LET ch == node.children
  IN IF Len(ch) < 6
       THEN push_error(st, "malformed def expression, expected (def name : return_type (params) body)")
     ELSE IF \/ ~is_atom(ch[2]) \/ ~is_atom(ch[3]) \/ ~is_atom(ch[4])
             \/ ~is_list(ch[5]) \/ ch[3].value # TOKEN_COLON
       THEN push_error(st, "malformed def expression")
     ELSE
       LET prev_scope == st.current_scope
           c == create_child(st, st.current_scope)
           s0 == [c.st EXCEPT !.current_scope = c.child]
           tick == is_polymorphic(ch[4].value)
       IN bind(def_params(s0, ch[5].children, 0, << >>, << >>), LAMBDA p :
          bind(fresh_var(p.st), LAMBDA f :
          LET s1 == IF tick THEN f.st ELSE p.st
              ret_t == IF tick THEN f.t ELSE get_type(ch[4].value)
              poly_vars == IF tick THEN Append(p.poly_vars, f.t.id)
                           ELSE p.poly_vars
              fn_type == curried(p.param_types, ret_t)
          IN bind(accept([s1 EXCEPT !.entered_fn_block = TRUE], ch[6]),
                  LAMBDA s2 :
             IF s2.exc # "" THEN s2 ELSE
             bind(scope_unify([s2 EXCEPT !.entered_fn_block = FALSE],
                              s2.current_scope, ret_t, s2.current_type),
                  LAMBDA u :
             IF escapes(u.exc) THEN [u.st EXCEPT !.exc = u.exc] ELSE
             bind(IF u.exc # ""
                    THEN push_error(u.st, "return type mismatch: " \o u.exc)
                    ELSE u.st, LAMBDA s4 :
             define_type(s4,
                         prev_scope, ch[2].value, fn_type, poly_vars))))))

\* type_visitor::visit_def
visit_def(st, node) ==
  LET ch == node.children
  IN IF Len(ch) < 6
       THEN push_error(st, "malformed def expression, expected (def name : return_type (params) body)")
     ELSE IF \/ ~is_atom(ch[2]) \/ ~is_atom(ch[3]) \/ ~is_atom(ch[4])
             \/ ~is_list(ch[5]) \/ ch[3].value # TOKEN_COLON
       THEN push_error(st, "malformed def expression")
     ELSE
       LET prev_scope == st.current_scope
           c == create_child(st, st.current_scope)
           s0 == [c.st EXCEPT !.current_scope = c.child]
           tick == is_polymorphic(ch[4].value)
       IN bind(def_params(s0, ch[5].children, 0, << >>, << >>), LAMBDA p :
          bind(fresh_var(p.st), LAMBDA f :
          LET s1 == IF tick THEN f.st ELSE p.st
              ret_t == IF tick THEN f.t ELSE get_type(ch[4].value)
              poly_vars == IF tick THEN Append(p.poly_vars, f.t.id)
                           ELSE p.poly_vars
              fn_type == curried(p.param_types, ret_t)
          IN bind(accept([s1 EXCEPT !.entered_fn_block = TRUE], ch[6]),
                  LAMBDA s2 :
             IF s2.exc # "" THEN s2 ELSE
             bind(scope_unify([s2 EXCEPT !.entered_fn_block = FALSE],
                              s2.current_scope, ret_t, s2.current_type),
                  LAMBDA u :
             IF escapes(u.exc) THEN [u.st EXCEPT !.exc = u.exc] ELSE
             bind(IF u.exc # ""
                    THEN push_error(u.st, "return type mismatch: " \o u.exc)
                    ELSE u.st, LAMBDA s4 :
             define_type([s4 EXCEPT !.current_scope = prev_scope],
                         prev_scope, ch[2].value, fn_type, poly_vars))))))

\* type_visitor::visit_set
visit_set(st, node) ==
  LET ch == node.children
  IN IF Len(ch) # 3
       THEN push_error(st, "malformed set expression, expected (set name value)")
     ELSE IF ~is_atom(ch[2]) THEN push_error(st, "malformed set expression")
     ELSE
       bind(accept(st, ch[3]), LAMBDA s1 :
       IF s1.exc # "" THEN s1 ELSE
       bind(lookup_type(s1, s1.current_scope, ch[2].value), LAMBDA l :
       IF l.exc # ""
         THEN with_error(l.st, "type error in assignment", "", l.exc)
       ELSE
       bind(scope_unify(l.st, l.st.current_scope, l.t, s1.current_type),
            LAMBDA u :
       IF escapes(u.exc) THEN [u.st EXCEPT !.exc = u.exc]
       ELSE IF u.exc # ""
         THEN with_error(u.st, "type error in assignment", "", u.exc)
       ELSE u.st)))

\* type_visitor::visit_if
visit_if(st, node) ==
  LET ch == node.children
  IN IF Len(ch) # 4
       THEN push_error(st, "malformed if expression, expected (if cond then else)")
     ELSE
       bind(accept(st, ch[2]), LAMBDA s1 :
       IF s1.exc # "" THEN s1 ELSE
       bind(scope_unify(s1, s1.current_scope, s1.current_type,
                        get_type(TYPE_BOOL)), LAMBDA u1 :
       IF escapes(u1.exc) THEN [u1.st EXCEPT !.exc = u1.exc] ELSE
       bind(IF u1.exc # ""
              THEN push_error(u1.st, "condition must be boolean: " \o u1.exc)
              ELSE u1.st, LAMBDA s2 :
       bind(accept(s2, ch[3]), LAMBDA s3 :
       IF s3.exc # "" THEN s3 ELSE
       bind(accept(s3, ch[4]), LAMBDA s4 :
       IF s4.exc # "" THEN s4 ELSE
       bind(scope_unify(s4, s4.current_scope, s3.current_type,
                        s4.current_type), LAMBDA u2 :
       IF escapes(u2.exc) THEN [u2.st EXCEPT !.exc = u2.exc]
       ELSE IF u2.exc # ""
         THEN with_error(u2.st, "branches have different types", "", u2.exc)
       ELSE [u2.st EXCEPT !.current_type = s3.current_type]))))))

\* the argument loop of visit_call: each argument is accepted and the
\* current_type it leaves is collected
call_args(st, ch, i, arg_types) ==
  IF i > Len(ch) THEN [st |-> st, arg_types |-> arg_types]
  ELSE bind(accept(st, ch[i]), LAMBDA s1 :
       IF s1.exc # "" THEN [st |-> s1, arg_types |-> arg_types]
       ELSE call_args(s1, ch, i + 1, Append(arg_types, s1.current_type)))

\* type_visitor::visit_call
visit_call(st, node) ==
  LET ch == node.children
  IN IF ch = << >> THEN st
     ELSE IF ~is_atom(ch[1]) THEN push_error(st, "expected function name")
     ELSE
       bind(call_args(st, ch, 2, << >>), LAMBDA a :
       IF a.st.exc # "" THEN a.st ELSE
       bind(lookup_type(a.st, a.st.current_scope, ch[1].value), LAMBDA l :
       IF l.exc # ""
         THEN with_error(l.st, "type error in call expr", "", l.exc)
       ELSE
       bind(fresh_var(l.st), LAMBDA f :
       bind(scope_unify(f.st, f.st.current_scope, l.t,
                        curried(a.arg_types, f.t)), LAMBDA u :
       IF escapes(u.exc) THEN [u.st EXCEPT !.exc = u.exc]
       ELSE IF u.exc # ""
         THEN with_error(u.st, "type error in call expr", "", u.exc)
       ELSE [u.st EXCEPT !.current_type = f.t]))))

\* register_builtins(scope), called on global_scope
register_builtins(st) ==
  LET a == fresh_var(st)
      b == fresh_var(a.st)
      int_t == get_type(TYPE_INT)
      bool_t == get_type(TYPE_BOOL)
      ab == make_function_type(a.t, b.t)
      iii == make_function_type(int_t, make_function_type(int_t, int_t))
      iib == make_function_type(int_t, make_function_type(int_t, bool_t))
      d(s, name, t) == define_type(s, 1, name, t, << >>)
  IN d(d(d(d(d(d(d(d(d(d(d(d(d(d(d(d(b.st,
       TOKEN_COLON, ab), TOKEN_DEF, ab), TOKEN_LET, ab), TOKEN_SET, ab),
       TOKEN_IF, ab), TYPE_INT, ab), TYPE_BOOL, ab), "k", ab),
       TOKEN_PROGRAM, ab),
       TOKEN_ADD, iii), TOKEN_SUB, iii), TOKEN_MUL, iii), TOKEN_DIV, iii),
       TOKEN_EQ, iib), TOKEN_GT, iib), TOKEN_LT, iib)

(***************************************************************************)
(* The forms the visitor of SpecCheck is given.                            *)
(***************************************************************************)
\* (def name : ret (params) body)
def_form(name, ret, params, body) ==
  list(<< atom(TOKEN_DEF), atom(name), atom(TOKEN_COLON), atom(ret),
          list(params), body >>)

\* p : t
param(p, t) == << atom(p), atom(TOKEN_COLON), atom(t) >>

\* (def id : 'a (x : 'a) x), line 1 of tests/types.lsp
IdDef == def_form("id", "'a", param("x", "'a"), atom("x"))

\* (def id : 'a (k : 'a) k)
IdDefK == def_form("id", "'a", param("k", "'a"), atom("k"))

\* (def add : int (x : int) (y : int) (+ x y)), lines 3-4 of tests/types.lsp
AddDef ==
  list(<< atom(TOKEN_DEF), atom("add"), atom(TOKEN_COLON), atom(TYPE_INT),
          list(param("x", TYPE_INT)), list(param("y", TYPE_INT)),
          list(<< atom(TOKEN_ADD), atom("x"), atom("y") >>) >>)

\* (def g : int (k : int) y)
UnboundBodyDef == def_form("g", TYPE_INT, param("k", TYPE_INT), atom("y"))

\* (def id : int (k : int) k)
IdDefInt == def_form("id", TYPE_INT, param("k", TYPE_INT), atom("k"))

\* (def f : bool (k : int) 5)
MismatchDef == def_form("f", TYPE_BOOL, param("k", TYPE_INT), atom("5"))

\* (def inc : int (k : int) (+ k 1))
IncDef ==
  def_form("inc", TYPE_INT, param("k", TYPE_INT),
           list(<< atom(TOKEN_ADD), atom("k"), atom("1") >>))

\* (def h : int (k : int k : bool) k)
TwoParamDef ==
  def_form("h", TYPE_INT, param("k", TYPE_INT) \o param("k", TYPE_BOOL),
           atom("k"))

\* (id 5)
IdCall == list(<< atom("id"), atom("5") >>)

\* (let v : 'a 5)
LetPoly == list(<< atom(TOKEN_LET), atom("v"), atom(TOKEN_COLON), atom("'a"),
                   atom("5") >>)

\* (def increment : int (x : int) (+ x 1)), lines 6-7 of tests/types.lsp
IncrementDef ==
  def_form("increment", TYPE_INT, param("x", TYPE_INT),
           list(<< atom(TOKEN_ADD), atom("x"), atom("1") >>))

\* (def is_unsigned : bool (x : int) (> x 0)), lines 9-10 of tests/types.lsp
IsUnsignedDef ==
  def_form("is_unsigned", TYPE_BOOL, param("x", TYPE_INT),
           list(<< atom(TOKEN_GT), atom("x"), atom("0") >>))

\* (def test_if : int (k : int) (if (is_unsigned 7) (increment 10) 0)),
\* lines 12-15 of tests/types.lsp
TestIfDef ==
  def_form("test_if", TYPE_INT, param("k", TYPE_INT),
           list(<< atom(TOKEN_IF),
                   list(<< atom("is_unsigned"), atom("7") >>),
                   list(<< atom("increment"), atom("10") >>),
                   atom("0") >>))

\* (def bad_add : int (k : int) (+ true 7)), lines 17-18 of tests/types.lsp
BadAddDef ==
  def_form("bad_add", TYPE_INT, param("k", TYPE_INT),
           list(<< atom(TOKEN_ADD), atom(TOKEN_TRUE), atom("7") >>))

\* (def bad_if : int (k : int) (if 7 1 0)), lines 20-23 of tests/types.lsp
BadIfDef ==
  def_form("bad_if", TYPE_INT, param("k", TYPE_INT),
           list(<< atom(TOKEN_IF), atom("7"), atom("1"), atom("0") >>))

\* (let x : int 5)
LetX == list(<< atom(TOKEN_LET), atom("x"), atom(TOKEN_COLON), atom(TYPE_INT),
                atom("5") >>)

\* (set x true)
SetXTrue == list(<< atom(TOKEN_SET), atom("x"), atom(TOKEN_TRUE) >>)

\* (set x false)
SetXFalse == list(<< atom(TOKEN_SET), atom("x"), atom(TOKEN_FALSE) >>)

\* (def fact : int (k : int) (fact k))
FactDef ==
  def_form("fact", TYPE_INT, param("k", TYPE_INT),
           list(<< atom("fact"), atom("k") >>))

\* (+ 1 5)
AddCall == list(<< atom(TOKEN_ADD), atom("1"), atom("5") >>)

\* (+ 1)
PartialAdd == list(<< atom(TOKEN_ADD), atom("1") >>)

\* (+ 1 5 7)
TooManyAdd == list(<< atom(TOKEN_ADD), atom("1"), atom("5"), atom("7") >>)

\* (if (+ 1 5))
MalformedIf == list(<< atom(TOKEN_IF), AddCall >>)

\* (set (+ 1 5))
MalformedSet == list(<< atom(TOKEN_SET), AddCall >>)

\* (let v : int)
MalformedLet == list(<< atom(TOKEN_LET), atom("v"), atom(TOKEN_COLON),
                        atom(TYPE_INT) >>)

\* (def f : int)
MalformedDef == list(<< atom(TOKEN_DEF), atom("f"), atom(TOKEN_COLON),
                        atom(TYPE_INT) >>)

\* (let b : bool 5)
LetMismatch == list(<< atom(TOKEN_LET), atom("b"), atom(TOKEN_COLON),
                       atom(TYPE_BOOL), atom("5") >>)

\* (set id +)
SetIdPlus == list(<< atom(TOKEN_SET), atom("id"), atom(TOKEN_ADD) >>)

\* (set v 5)
SetV == list(<< atom(TOKEN_SET), atom("v"), atom("5") >>)

Forms == {IdDef, IdDefK, AddDef, UnboundBodyDef, IdDefInt, MismatchDef,
          IncDef, TwoParamDef, IdCall, LetPoly, atom("v"), atom("id"),
          atom("y"), atom("5"),
          IncrementDef, IsUnsignedDef, TestIfDef, BadAddDef, BadIfDef,
          LetX, SetXTrue, SetXFalse, FactDef,
          atom(TOKEN_TRUE), atom(TOKEN_FALSE),
          AddCall, PartialAdd, TooManyAdd, MalformedIf, MalformedSet,
          MalformedLet, MalformedDef, LetMismatch, SetIdPlus, SetV}

NoNode == [k |-> "none"]

(***************************************************************************)
(* The state after construction: a type_system, and a type_visitor with    *)
(* its global_scope.                                                       *)
(***************************************************************************)
Init ==
  /\ types = new_type_system
  /\ result = NoResult
  /\ calls = 0
  /\ scopes = << new_scope(0) >>
  /\ current_scope = 1
  /\ current_type = nullptr
  /\ errors = << >>
  /\ entered_fn_block = FALSE
  /\ bindings = EmptyMap
  /\ next_id = 0
  /\ exc = ""
  /\ registered = FALSE
  /\ last = NoNode
  /\ nforms = 0
  /\ insts = << >>
  /\ issued = << >>
  /\ history = << >>

\* the visitor's state as the record the operators work on
State ==
  [scopes |-> scopes, current_scope |-> current_scope,
   current_type |-> current_type, errors |-> errors,
   entered_fn_block |-> entered_fn_block, bindings |-> bindings,
   next_id |-> next_id, exc |-> exc, insts |-> insts, issued |-> issued]

Becomes(st) ==
  /\ scopes' = st.scopes
  /\ current_scope' = st.current_scope
  /\ current_type' = st.current_type
  /\ errors' = st.errors
  /\ entered_fn_block' = st.entered_fn_block
  /\ bindings' = st.bindings
  /\ next_id' = st.next_id
  /\ exc' = st.exc
  /\ insts' = st.insts
  /\ issued' = st.issued

\* main: register_builtins(visitor->global_scope), before any accept
RegisterBuiltins ==
  /\ ~registered
  /\ registered' = TRUE
  /\ Becomes(register_builtins(State))
  /\ UNCHANGED << last, nforms, history >>
  /\ UNCHANGED unifier_vars

\* node->accept(visitor.get()); an exception that escapes it ends the check
Accept(node) ==
  /\ registered
  /\ exc = ""
  /\ nforms < MaxForms
  /\ Becomes(accept(State, node))
  /\ last' = node
  /\ nforms' = nforms + 1
  /\ history' = Append(history, node)
  /\ UNCHANGED registered
  /\ UNCHANGED unifier_vars

Next == \E t1 \in Terms, t2 \in Terms : UnifyCall(t1, t2)

Spec == Init /\ [][Next]_vars

NextCheck == RegisterBuiltins \/ \E node \in Forms : Accept(node)

SpecCheck == Init /\ [][NextCheck]_vars

(***************************************************************************)
(* Properties of the unifier, checked under Spec.                          *)
(***************************************************************************)
fv_set(t) == {free_vars(t)[i] : i \in DOMAIN free_vars(t)}

\* the ids the entry of a mentions
bound_to(ts, a) ==
  IF a \in DOMAIN ts.substitutions THEN fv_set(ts.substitutions[a]) ELSE {}

\* the ids reached from the set S by following the map
RECURSIVE chase(_, _)
chase(ts, S) ==
  LET N == S \cup UNION {bound_to(ts, a) : a \in S}
  IN IF N = S THEN S ELSE chase(ts, N)

succeeds(ts, a, b) == unify(ts, a, b, MaxDepth).exc = ""

\* C1: substitution idempotence.  For every term t and every substitution
\* reached by unify calls, apply(apply(t)) = apply(t).
C1_ApplyIdempotent ==
  \A t \in Terms :
    get_final_type(types, get_final_type(types, t)) = get_final_type(types, t)

\* C2: occurs-check soundness.  After any sequence of unify calls the
\* substitution is acyclic: following the map from a bound id through the
\* variables of its term never returns to that id.
C2_Acyclic ==
  \A a \in DOMAIN types.substitutions : a \notin chase(types, bound_to(types, a))

\* C3: unification symmetry.  From every reachable substitution and for all
\* terms a and b, unify(a, b) succeeds iff unify(b, a) succeeds.
C3_UnifySymmetric ==
  \A a \in Terms, b \in Terms : succeeds(types, a, b) <=> succeeds(types, b, a)

\* C4: a unify call that ends in TypeMismatch or RecursiveUnification leaves
\* the substitution map as it was before the call.
C4_FailureLeavesSubstitution ==
  [][(calls' = calls + 1 /\ result' \notin {"", StackOverflow})
       => types'.substitutions = types.substitutions]_vars

(***************************************************************************)
(* Properties of the checker, checked under SpecCheck.                     *)
(***************************************************************************)
global_scope == 1

\* C5: all scopes of one check share one type-system handle: a binding that
\* unify records through one scope is in the substitution of every scope.
C5_OneTypeSystem ==
  \A i \in DOMAIN scopes, j \in DOMAIN scopes :
    scopes[i].types.substitutions = scopes[j].types.substitutions

\* C6: after (def id : 'a (x : 'a) x) is checked, a lookup of id yields
\* Arrow(v, v) with one variable v in both positions.
C6_IdIsArrowVV ==
  (last = IdDef /\ "id" \in DOMAIN scopes[global_scope].env) =>
    LET r == lookup_type(State, global_scope, "id")
    IN /\ r.exc = ""
       /\ r.t.k = "func"
       /\ r.t.arg_type.k = "var"
       /\ r.t.arg_type = r.t.ret_type

\* C7: no error escapes the checker: accept never leaves by an exception,
\* also when an atom names something unbound in every enclosing scope.
C7_NoErrorEscapes == exc = ""

\* C8: instantiation freshness.  The types returned by two separate lookups
\* of a name defined with polymorphic variables have disjoint sets of free
\* variable ids, and no lookup returns one of the generalized ids recorded
\* for the name, at the time of a lookup or now.
C8_InstantiationFresh ==
  /\ \A i \in DOMAIN insts, j \in DOMAIN insts :
       insts[i].name = insts[j].name =>
         /\ i # j => fv_set(insts[i].t) \cap fv_set(insts[j].t) = {}
         /\ \A n \in DOMAIN insts[j].ids : insts[j].ids[n] \notin fv_set(insts[i].t)
  /\ \A i \in DOMAIN insts, sc \in DOMAIN scopes :
       insts[i].name \in DOMAIN scopes[sc].polymorphic_vars =>
         LET ids == scopes[sc].polymorphic_vars[insts[i].name]
         IN \A n \in DOMAIN ids : ids[n] \notin fv_set(insts[i].t)

\* two lookups of the polymorphic id have each returned an arrow of
\* variables
C8_Witness ==
  \E i \in DOMAIN insts, j \in DOMAIN insts :
    /\ i < j
    /\ insts[i].name = "id" /\ insts[j].name = "id"
    /\ Len(insts[i].ids) = 2
    /\ Cardinality(fv_set(insts[i].t)) = 2
    /\ Cardinality(fv_set(insts[j].t)) = 2

\* the defs of Forms of the shape (def name : R (params) body) whose
\* annotations are all without tick
PlainDefs == {UnboundBodyDef, IdDefInt, MismatchDef, IncDef, TwoParamDef}

\* the declared types of a parameter list p1 : T1 p2 : T2 ...
RECURSIVE declared_params(_, _)
declared_params(ch, i) ==
  IF i + 2 > Len(ch) THEN << >>
  ELSE << atomic_type(ch[i + 2].value) >> \o declared_params(ch, i + 3)

declared_arrow(d) ==
  curried(declared_params(d.children[5].children, 1),
          atomic_type(d.children[4].value))

\* C9: annotation round-trip.  After a def with annotations without tick is
\* checked, the parent scope binds its name, with no polymorphic variables,
\* to the right-folded arrow of the declared types, whatever the body.
C9_AnnotationRoundTrip ==
  \A d \in PlainDefs :
    last = d =>
      LET name == d.children[2].value
          g == scopes[global_scope]
      IN /\ name \in DOMAIN g.env
         /\ g.env[name] = declared_arrow(d)
         /\ name \notin DOMAIN g.polymorphic_vars

\* C10: (def add : int (x : int) (y : int) (+ x y)), checked first, gives no
\* diagnostic and binds add to int -> int -> int.
C10_AddChecks ==
  (nforms = 1 /\ last = AddDef) =>
    /\ errors = << >>
    /\ exc = ""
    /\ "add" \in DOMAIN scopes[global_scope].env
    /\ scopes[global_scope].env["add"]
         = func_type(atomic_type(TYPE_INT),
                     func_type(atomic_type(TYPE_INT), atomic_type(TYPE_INT)))

\* the runs of the well-typed defs of tests/types.lsp, in the order of the
\* file
WellTypedRuns ==
  {<< IncrementDef >>, << IsUnsignedDef >>, << IncrementDef, IsUnsignedDef >>,
   << IncrementDef, IsUnsignedDef, TestIfDef >>}

\* C11: a well-typed def whose body is a call, or an if over calls, produces
\* no diagnostics: after increment, is_unsigned and test_if are checked the
\* diagnostics list is empty.
C11_WellTypedDefsNoDiagnostics ==
  history \in WellTypedRuns => errors = << >>

\* "type error in call expr" as with_error writes it, with the unifier's
\* message as hint
call_error(hint) ==
  format_error("type error in call expr", 1, 1, SourceLine, "", hint)

\* C12: (def bad_add : int (k : int) (+ true 7)) ends with exactly one
\* diagnostic, a call type error saying that int was expected and bool found.
C12_BadAddOneDiagnostic ==
  history = << BadAddDef >> =>
    errors = << call_error(type_mismatch(atomic_type(TYPE_INT),
                                         atomic_type(TYPE_BOOL))) >>

\* C13: (def bad_if : int (k : int) (if 7 1 0)) ends with exactly one
\* diagnostic, the one for a condition that is not bool.
C13_BadIfOneDiagnostic ==
  history = << BadIfDef >> =>
    errors = << "condition must be boolean: "
                  \o type_mismatch(atomic_type(TYPE_INT),
                                   atomic_type(TYPE_BOOL)) >>

\* C14: after (let x : int 5), checking (set x true) appends exactly one
\* diagnostic, an assignment type error for int against bool, and x stays
\* bound to int.
C14_SetWrongTypeOnce ==
  history = << LetX, SetXTrue >> =>
    /\ errors = << format_error("type error in assignment", 1, 1, SourceLine,
                                "", type_mismatch(atomic_type(TYPE_INT),
                                                  atomic_type(TYPE_BOOL))) >>
    /\ "x" \in DOMAIN scopes[global_scope].env
    /\ scopes[global_scope].env["x"] = atomic_type(TYPE_INT)

\* C15: diagnostics are deduplicated: the list never holds two entries with
\* the same kind, span and message (the text of an entry carries all three).
C15_DiagnosticsDeduplicated ==
  \A i \in DOMAIN errors, j \in DOMAIN errors :
    i # j => errors[i] # errors[j]

\* C16: visiting the atom true and visiting the atom false each set
\* current_type to bool, with no diagnostic and no exception from a lookup.
C16_BooleanLiterals ==
  [][(nforms' = nforms + 1
        /\ last' \in {atom(TOKEN_TRUE), atom(TOKEN_FALSE)})
       => /\ exc' = ""
          /\ current_type' = atomic_type(TYPE_BOOL)
          /\ errors' = errors]_vars

Comparisons ==
  {TOKEN_EQ, TOKEN_NEQ, TOKEN_LT, TOKEN_GT, TOKEN_LEQ, TOKEN_GEQ}

Arithmetic == {TOKEN_ADD, TOKEN_SUB, TOKEN_MUL, TOKEN_DIV}

int_int_to(t) ==
  func_type(atomic_type(TYPE_INT), func_type(atomic_type(TYPE_INT), t))

\* C17: once the prelude is seeded, each of = != < > <= >= looked up in the
\* root scope is int -> int -> bool and each of + - * / is int -> int -> int.
C17_PreludeOperators ==
  registered =>
    /\ \A op \in Comparisons :
         LET r == lookup_type(State, global_scope, op)
         IN r.exc = "" /\ r.t = int_int_to(atomic_type(TYPE_BOOL))
    /\ \A op \in Arithmetic :
         LET r == lookup_type(State, global_scope, op)
         IN r.exc = "" /\ r.t = int_int_to(atomic_type(TYPE_INT))

\* C18: direct recursion type-checks: for (def fact : int (k : int) (fact k))
\* the child scope binds fact to int -> int while the body is checked, and
\* the call of fact in the body gives no diagnostic.
C18_RecursionChecks ==
  history = << FactDef >> =>
    /\ errors = << >>
    /\ Len(scopes) >= 2
    /\ "fact" \in DOMAIN scopes[2].env
    /\ scopes[2].env["fact"] = declared_arrow(FactDef)

\* C19: fresh-variable ids are never reused: every fresh_var call of a check,
\* from whatever scope, returns an id greater than all ids returned before.
C19_FreshIdsIncrease ==
  \A i \in DOMAIN issued, j \in DOMAIN issued :
    i < j => issued[i] < issued[j]

\* ids were issued for the prelude, for the annotations of a def, for the
\* instantiations of two lookups and for the result of a call
C19_Witness ==
  /\ history = << IdDefK, IdCall >>
  /\ Len(scopes) >= 2
  /\ Len(insts) >= 2
  /\ Len(issued) > 6
  /\ next_id = Len(issued)

(***************************************************************************)
(* A further property of the unifier, checked under Spec.                  *)
(***************************************************************************)
\* C20: unifying a variable with itself is a successful no-op: for every id
\* a unbound in the substitution, a call unify(Var(a), Var(a)) returns and
\* leaves the substitution as it was.
C20_SelfUnifyNoOp ==
  [][\A a \in VarIds :
       (a \notin DOMAIN types.substitutions
          /\ UnifyCall(var_type(a), var_type(a)))
         => (result' = "" /\ types' = types)]_vars

\* C21: the substitution grows monotonically: a unify call neither changes
\* nor removes an entry that an earlier call recorded.
C21_MonotoneGrowth ==
  [][\A a \in DOMAIN types.substitutions :
       /\ a \in DOMAIN types'.substitutions
       /\ types'.substitutions[a] = types.substitutions[a]]_vars

\* the substitution of every scope that exists before a step
scope_substitutions_kept ==
  \A sc \in DOMAIN scopes :
    scopes'[sc].types.substitutions = scopes[sc].types.substitutions

MalformedForms == {MalformedIf, MalformedSet, MalformedLet, MalformedDef}

\* C22: checking a malformed special form (wrong number of children) appends
\* a diagnostic and unifies nothing in its whole subtree: every substitution
\* after the form equals the one before it.
C22_MalformedNotCheckedFurther ==
  [][\A f \in MalformedForms :
       history' = Append(history, f) =>
         /\ Len(errors') > Len(errors)
         /\ scope_substitutions_kept]_vars

\* C23: a well-shaped (let name : T value) defines its name with type T in
\* the current scope also when T and the value's type do not unify:
\* after (let b : bool 5), b is bound to bool.
C23_LetAlwaysDefines ==
  [][history' = Append(history, LetMismatch) =>
       /\ "b" \in DOMAIN scopes'[current_scope].env
       /\ scopes'[current_scope].env["b"] = atomic_type(TYPE_BOOL)]_vars

SetForms ==
  {f \in Forms : /\ is_list(f) /\ Len(f.children) = 3
                 /\ f.children[1] = atom(TOKEN_SET) /\ is_atom(f.children[2])}

\* name has a non-empty polymorphic-variable list in the global scope
polymorphic_binding(name) ==
  /\ name \in DOMAIN scopes[global_scope].env
  /\ name \in DOMAIN scopes[global_scope].polymorphic_vars
  /\ scopes[global_scope].polymorphic_vars[name] # << >>

\* C24: (set name value) on a binding with a non-empty polymorphic-variable
\* list instantiates the binding and unifies with that instance only: the
\* environment entry and the polymorphic-variable list of name stay as they
\* were, and no generalized id of name gets, loses or changes a binding in
\* any substitution.
C24_SetKeepsScheme ==
  [][\A f \in SetForms :
       LET name == f.children[2].value
           g == scopes[global_scope]
       IN (history' = Append(history, f) /\ polymorphic_binding(name)) =>
            /\ scopes'[global_scope].env[name] = g.env[name]
            /\ scopes'[global_scope].polymorphic_vars[name]
                 = g.polymorphic_vars[name]
            /\ Len(insts') > Len(insts)
            /\ \E n \in (Len(insts) + 1) .. Len(insts') :
                 /\ insts'[n].name = name
                 /\ \A a \in fv_set(insts'[n].t) : a >= next_id
            /\ \A sc \in DOMAIN scopes, i \in DOMAIN g.polymorphic_vars[name] :
                 LET a == g.polymorphic_vars[name][i]
                     before == scopes[sc].types.substitutions
                     after == scopes'[sc].types.substitutions
                 IN /\ a \in DOMAIN after <=> a \in DOMAIN before
                    /\ a \in DOMAIN before => after[a] = before[a]]_vars

\* C24 witness: after (def id : 'a (k : 'a) k), (set id +) has returned; id
\* keeps its two generalized ids, neither is bound, and variables of the
\* instance are bound in the global substitution.
C24_Witness ==
  LET g == scopes[global_scope]
  IN /\ history = << IdDefK, SetIdPlus >>
     /\ exc = ""
     /\ Len(g.polymorphic_vars["id"]) = 2
     /\ \A i \in 1 .. 2 :
          g.polymorphic_vars["id"][i] \notin DOMAIN g.types.substitutions
     /\ \E a \in DOMAIN g.types.substitutions :
          g.types.substitutions[a] = atomic_type(TYPE_INT)

\* the names lookup is asked for: every defined name and one defined nowhere
LookupNames ==
  UNION {DOMAIN scopes[sc].env : sc \in DOMAIN scopes} \cup {"nowhere"}

\* the closest scope on the path from sc to the root that defines name, 0
\* when there is none
RECURSIVE defining_scope(_, _)
defining_scope(sc, name) ==
  IF name \in DOMAIN scopes[sc].env THEN sc
  ELSE IF scopes[sc].parent = 0 THEN 0
  ELSE defining_scope(scopes[sc].parent, name)

\* t with every id of ids replaced by the variable made for it, the i-th id
\* getting the i-th variable made from base on
RECURSIVE instance_of(_, _, _)
instance_of(t, ids, base) ==
  IF t.k = "func"
    THEN func_type(instance_of(t.arg_type, ids, base),
                   instance_of(t.ret_type, ids, base))
  ELSE IF t.k = "var" /\ \E i \in DOMAIN ids : ids[i] = t.id
    THEN LET n == CHOOSE i \in DOMAIN ids :
                    /\ ids[i] = t.id
                    /\ \A j \in DOMAIN ids : ids[j] = t.id => j <= i
         IN var_type(base + n - 1)
  ELSE t

\* C25: lookup of a name from a scope gives the type defined in the closest
\* scope on the path to the root that defines the name, instantiated with
\* the polymorphic variables recorded in that scope, and reports an unbound
\* variable only when no scope on the path defines it; a later define of a
\* name in one scope replaces the earlier one.
C25_NearestDefinition ==
  /\ \A sc \in DOMAIN scopes, name \in LookupNames :
       LET r == lookup_type(State, sc, name)
           d == defining_scope(sc, name)
       IN IF d = 0 THEN r.exc = unbound_variable(name)
          ELSE /\ r.exc = ""
               /\ r.t = IF name \in DOMAIN scopes[d].polymorphic_vars
                          THEN instance_of(scopes[d].env[name],
                                           scopes[d].polymorphic_vars[name],
                                           next_id)
                          ELSE scopes[d].env[name]
  /\ (history = << IdDefK, IdDefInt >> /\ exc = "") =>
       lookup_type(State, global_scope, "id").t = declared_arrow(IdDefInt)

\* C25 witness: a def's scope defines k with another type than the global
\* scope does, and lookup from the def's scope gives the def's k.
C25_Witness ==
  \E sc \in DOMAIN scopes :
    /\ scopes[sc].parent = global_scope
    /\ "k" \in DOMAIN scopes[sc].env
    /\ "k" \in DOMAIN scopes[global_scope].env
    /\ scopes[sc].env["k"] # scopes[global_scope].env["k"]
    /\ lookup_type(State, sc, "k").t = scopes[sc].env["k"]
    /\ lookup_type(State, global_scope, "k").t # scopes[sc].env["k"]

\* C26: (+ 1), with + : int -> int -> int, appends no diagnostic and binds
\* the call's fresh result variable to int -> int; (+ 1 5 7) appends one call
\* type error.
C26_PartialApplication ==
  [][/\ history' = Append(history, PartialAdd) =>
          LET after == scopes'[current_scope].types.substitutions
          IN /\ errors' = errors
             /\ exc' = ""
             /\ next_id \notin DOMAIN scopes[current_scope].types.substitutions
             /\ next_id \in DOMAIN after
             /\ after[next_id] = func_type(atomic_type(TYPE_INT),
                                           atomic_type(TYPE_INT))
     /\ history' = Append(history, TooManyAdd) =>
          errors' = Append(errors,
            call_error(type_mismatch(atomic_type(TYPE_INT),
              func_type(atomic_type(TYPE_INT), var_type(next_id)))))]_vars

\* C26 witness: (+ 1) and then (+ 1 5 7) have been checked; the result
\* variable of the first is bound to int -> int and the second left the only
\* diagnostic.
C26_Witness ==
  /\ history = << PartialAdd, TooManyAdd >>
  /\ Len(errors) = 1
  /\ \E a \in DOMAIN scopes[global_scope].types.substitutions :
       scopes[global_scope].types.substitutions[a]
         = func_type(atomic_type(TYPE_INT), atomic_type(TYPE_INT))

\* C27: no variable is bound to itself: no reachable substitution has an id
\* a whose entry is the term Var(a).
C27_NoSelfBinding ==
  \A a \in DOMAIN types.substitutions :
    types.substitutions[a] # var_type(a)

\* two variables are bound to each other, and neither to itself
C27_Witness ==
  \E a \in DOMAIN types.substitutions, b \in DOMAIN types.substitutions :
    /\ a # b
    /\ types.substitutions[a] = var_type(b)
    /\ types.substitutions[b] = var_type(a)

\* bindings are followed at most once per variable there is, and once more
ResolveFuel == Cardinality(VarIds) + 1

\* t with its bound variables replaced, following bindings until no bound
\* variable remains
RECURSIVE resolve(_, _, _)
resolve(ts, t, n) ==
  IF t.k = "func"
    THEN func_type(resolve(ts, t.arg_type, n), resolve(ts, t.ret_type, n))
  ELSE IF t.k = "var" /\ t.id \in DOMAIN ts.substitutions /\ n > 0
    THEN resolve(ts, ts.substitutions[t.id], n - 1)
  ELSE t

\* C28: unification is sound: when a call unify(t1, t2) returns, t1 and t2
\* resolved under the substitution it leaves are the same term; so
\* unify(Arrow(v, v), Arrow(int, bool)) never returns.
C28_UnifySound ==
  [][\A t1 \in Terms, t2 \in Terms :
       (UnifyCall(t1, t2) /\ result' = "")
         => resolve(types', t1, ResolveFuel) = resolve(types', t2, ResolveFuel)]_vars

\* C29: every node is checked once, so after the call (+ 1 5) has been
\* accepted current_type is the call's fresh result variable and one fresh
\* variable has been made.
C29_CheckedOnce ==
  [][history' = Append(history, AddCall) =>
       /\ current_type' = var_type(next_id)
       /\ next_id' = next_id + 1]_vars

DefForms ==
  {f \in Forms : /\ is_list(f) /\ Len(f.children) >= 6
                 /\ f.children[1] = atom(TOKEN_DEF)}

\* the names the parameter list of def d declares
param_names(d) ==
  LET ch == d.children[5].children
  IN {ch[i].value : i \in {j \in DOMAIN ch : j % 3 = 1}}

\* C30: a form whose check returns normally leaves current_scope as it was;
\* a def makes one child scope of the current scope, defines its parameters
\* there and its own name in the parent, and leaves the parent's entries for
\* the parameter names as they were.
C30_ScopesBalanced ==
  [][\A f \in Forms :
       (history' = Append(history, f) /\ exc' = "") =>
         /\ current_scope' = current_scope
         /\ f \in DefForms =>
              LET child == Len(scopes) + 1
                  name == f.children[2].value
                  before == scopes[current_scope].env
                  after == scopes'[current_scope].env
              IN /\ Len(scopes') = child
                 /\ scopes'[child].parent = current_scope
                 /\ name \in DOMAIN after
                 /\ \A p \in param_names(f) \ {name} :
                      /\ p \in DOMAIN scopes'[child].env
                      /\ p \in DOMAIN after <=> p \in DOMAIN before
                      /\ p \in DOMAIN before => after[p] = before[p]]_vars

\* C30 witness: (def f : bool (k : int) 5) has returned with its return type
\* mismatch reported; the global scope is current again, f is defined there
\* and k : int only in the def's scope.
C30_Witness ==
  /\ history = << MismatchDef >>
  /\ exc = ""
  /\ errors # << >>
  /\ current_scope = global_scope
  /\ Len(scopes) = 2
  /\ "f" \in DOMAIN scopes[global_scope].env
  /\ scopes[2].env["k"] = atomic_type(TYPE_INT)
  /\ scopes[global_scope].env["k"] # atomic_type(TYPE_INT)

=============================================================================
